---- MODULE Spec2Model ----
(***************************************************************************)
(* Model of the data layer of the Store point-of-sale program              *)
(* (store_manager_backend.py): the SQLite schema of init_db, the catalog   *)
(* operations add_product / remove_product / get_product_details, the      *)
(* checkout process_sale and the receipt query get_transaction_details.    *)
(*                                                                         *)
(* Strings are sequences of one-character strings, so that strip() and     *)
(* upper() are computed and not assumed.  Prices and quantities are        *)
(* integers, on which float() and int() preserve the value.                *)
(***************************************************************************)
EXTENDS Integers, Sequences, FiniteSets, TLC

(***************************************************************************)
(* Bounds of the exploration.                                              *)
(***************************************************************************)
MaxItems == 2   \* rows of transaction_items explored
MaxBill == 2    \* entries of current_bill_items explored
MaxTime == 1    \* CURRENT_TIMESTAMP values are 0..MaxTime

(***************************************************************************)
(* Argument values the callers pass.                                       *)
(***************************************************************************)
SkuArgs == {<<>>, <<" ">>, <<"a">>, <<"A">>}
NameArgs == {<<>>, <<" ">>, <<" ", "n">>}
PriceArgs == {-1, 2}
QtyArgs == {-1, 2}
BillSkus == {<<>>, <<"a">>, <<"A">>}
BillNames == {<<"n">>}
BillPrices == {3}
BillQtys == {0, 1, 2}
BillLines == [sku : BillSkus, name : BillNames, price_at_sale : BillPrices,
              quantity_sold : BillQtys]
\* A tuple of three elements instead of four: it has no quantity_sold.
ShortLines == [sku : {<<"A">>}, name : BillNames, price_at_sale : BillPrices]
Bills == {<<>>} \cup {<<l>> : l \in BillLines \cup ShortLines}
           \cup {<<l1, l2>> : l1 \in BillLines, l2 \in BillLines}
TidArgs == 0..(MaxItems + 1)
LimitArgs == 0..(MaxItems + 1)

\* What the user types and picks in the window.  Prices of the window are
\* in thousandths of the currency unit, so that the two-decimal text of a
\* price is computed.
GuiSkus == {<<>>, <<"a">>}
GuiNames == {<<"n">>}
GuiPrices == {2004, 5000}
GuiStocks == {2}
GuiQtys == {0, 1, 2}
GuiTerms == {<<>>, <<"a">>, <<"n">>}
TermArgs == {<<>>, <<" ">>, <<"a">>, <<"N">>}

(***************************************************************************)
(* str.strip() and str.upper().                                            *)
(***************************************************************************)
RECURSIVE lstrip(_)
lstrip(s) ==
    IF s /= <<>> /\ Head(s) = " " THEN lstrip(Tail(s)) ELSE s

RECURSIVE rstrip(_)
rstrip(s) ==
    IF s /= <<>> /\ s[Len(s)] = " " THEN rstrip(SubSeq(s, 1, Len(s) - 1)) ELSE s

strip(s) == rstrip(lstrip(s))

upperChar(c) ==
    IF c = "a" THEN "A" ELSE IF c = "b" THEN "B" ELSE IF c = "n" THEN "N" ELSE c

upper(s) ==
    IF s = <<>> THEN <<>> ELSE [i \in 1..Len(s) |-> upperChar(s[i])]

\* Python truthiness of a str: `not s` holds exactly for the empty string.
Truthy(s) == s /= <<>>

(***************************************************************************)
(* The database: the three tables of init_db and the AUTOINCREMENT         *)
(* counters SQLite keeps in sqlite_sequence.  transactions and             *)
(* transaction_items are kept in insertion order.                          *)
(***************************************************************************)
EmptyDb ==
    [products |-> {},
     transactions |-> <<>>,
     transaction_items |-> <<>>,
     sqlite_sequence |-> [transactions |-> 0, transaction_items |-> 0]]

RECURSIVE SeqMax(_, _)
SeqMax(s, f) ==
    IF s = <<>> THEN 0
    ELSE LET m == SeqMax(Tail(s), f)
             v == Head(s)[f]
         IN IF v > m THEN v ELSE m

\* Variant: the rowid is not advanced past the largest one in use.
NextRowid_NotAdvanced(seq, rows, key) ==
    LET m == SeqMax(rows, key)
    IN IF seq > m THEN seq ELSE m

\* INTEGER PRIMARY KEY AUTOINCREMENT: one more than the largest rowid ever used.
NextRowid(seq, rows, key) ==
    LET m == SeqMax(rows, key)
    IN (IF seq > m THEN seq ELSE m) + 1

\* Variant: products declared without PRIMARY KEY on sku.
InsertProduct_NoPrimaryKey(d, sku, name, price, quantity) ==
    IF price < 0 \/ quantity < 0
    THEN [exc |-> "IntegrityError", db |-> d]
    ELSE [exc |-> "None",
          db |-> [d EXCEPT !.products = @ \cup
                    {[sku |-> sku, name |-> name, price |-> price,
                      quantity |-> quantity]}]]

\* INSERT INTO products: PRIMARY KEY(sku), CHECK(price >= 0), CHECK(quantity >= 0).
InsertProduct(d, sku, name, price, quantity) ==
    IF \/ \E p \in d.products : p.sku = sku
       \/ price < 0
       \/ quantity < 0
    THEN [exc |-> "IntegrityError", db |-> d]
    ELSE [exc |-> "None",
          db |-> [d EXCEPT !.products = @ \cup
                    {[sku |-> sku, name |-> name, price |-> price,
                      quantity |-> quantity]}]]

\* SELECT ... FROM products WHERE sku = ? (binary comparison): the rows found.
SelectProduct(d, sku) == {p \in d.products : p.sku = sku}

\* Variant: foreign keys are not enforced on the connection.
DeleteProduct_NoForeignKeys(d, sku) ==
    LET hit == SelectProduct(d, sku)
    IN [exc |-> "None",
        db |-> [d EXCEPT !.products = @ \ hit],
        rowcount |-> Cardinality(hit)]

\* DELETE FROM products WHERE sku = ? with foreign_keys = ON and
\* product_sku REFERENCES products(sku) ON DELETE RESTRICT.
DeleteProduct(d, sku) ==
    LET hit == SelectProduct(d, sku)
        referenced == \E i \in 1..Len(d.transaction_items) :
                         d.transaction_items[i].product_sku = sku
    IN IF hit /= {} /\ referenced
       THEN [exc |-> "IntegrityError", db |-> d, rowcount |-> 0]
       ELSE [exc |-> "None",
             db |-> [d EXCEPT !.products = @ \ hit],
             rowcount |-> Cardinality(hit)]

\* INSERT INTO transactions (total_amount): AUTOINCREMENT id, DEFAULT CURRENT_TIMESTAMP.
InsertTransaction(d, total, ts) ==
    LET id == NextRowid(d.sqlite_sequence.transactions, d.transactions,
                        "transaction_id")
    IN [exc |-> "None",
        lastrowid |-> id,
        db |-> [d EXCEPT
                  !.transactions = Append(@, [transaction_id |-> id,
                                              timestamp |-> ts,
                                              total_amount |-> total]),
                  !.sqlite_sequence.transactions = id]]

\* INSERT INTO transaction_items: both FOREIGN KEYs are enforced.
InsertItem(d, tid, sku, quantity_sold, price_at_sale) ==
    LET id == NextRowid(d.sqlite_sequence.transaction_items,
                        d.transaction_items, "item_id")
    IN IF \/ SelectProduct(d, sku) = {}
          \/ ~ \E i \in 1..Len(d.transactions) :
                  d.transactions[i].transaction_id = tid
       THEN [exc |-> "IntegrityError", db |-> d]
       ELSE [exc |-> "None",
             db |-> [d EXCEPT
                       !.transaction_items =
                           Append(@, [item_id |-> id,
                                      transaction_id |-> tid,
                                      product_sku |-> sku,
                                      quantity_sold |-> quantity_sold,
                                      price_at_sale |-> price_at_sale]),
                       !.sqlite_sequence.transaction_items = id]]

\* Variant: the UPDATE has no WHERE clause and decrements every product.
UpdateStock_NoWhere(d, quantity_sold, sku) ==
    IF \E p \in d.products : p.quantity - quantity_sold < 0
    THEN [exc |-> "IntegrityError", db |-> d]
    ELSE [exc |-> "None",
          db |-> [d EXCEPT !.products =
                    {[p EXCEPT !.quantity = @ - quantity_sold] : p \in @}]]

\* Variant: the UPDATE takes one unit whatever the quantity sold.
UpdateStock_ByOne(d, quantity_sold, sku) ==
    IF \E p \in d.products : p.sku = sku /\ p.quantity - 1 < 0
    THEN [exc |-> "IntegrityError", db |-> d]
    ELSE [exc |-> "None",
          db |-> [d EXCEPT !.products =
                    {IF p.sku = sku THEN [p EXCEPT !.quantity = @ - 1] ELSE p :
                        p \in @}]]

\* UPDATE products SET quantity = quantity - ? WHERE sku = ?, under CHECK(quantity >= 0).
UpdateStock(d, quantity_sold, sku) ==
    IF \E p \in SelectProduct(d, sku) : p.quantity - quantity_sold < 0
    THEN [exc |-> "IntegrityError", db |-> d]
    ELSE [exc |-> "None",
          db |-> [d EXCEPT !.products =
                    {IF p.sku = sku
                     THEN [p EXCEPT !.quantity = @ - quantity_sold]
                     ELSE p : p \in @}]]

\* conn.commit() keeps the work of the open transaction; conn.rollback()
\* restores the database as it was when the transaction began.
Commit(base, work) == work

\* Variant: the rollback is missing, the work done so far stays.
Rollback_Missing(base, work) == work

Rollback(base, work) == base

(***************************************************************************)
(* Outcome of a call: what it returned or which exception left it.         *)
(***************************************************************************)
NoRow == {}
Outcome(kind, msg) ==
    [kind |-> kind, msg |-> msg, ret_id |-> 0, ret_row |-> NoRow,
     ret_info |-> NoRow, ret_items |-> <<>>, ret_rows |-> <<>>,
     conn |-> "none"]

Returned == Outcome("ok", "")
Raise(cls, msg) == Outcome(cls, msg)

\* The connection of the call: conn is "none" while the call has opened no
\* connection, "open" once get_db_connection() has returned, and "closed"
\* after conn.close().
Opened(outcome) == [outcome EXCEPT !.conn = "open"]

\* finally: conn.close()
Closed(outcome) == [outcome EXCEPT !.conn = "closed"]

(***************************************************************************)
(* add_product                                                             *)
(***************************************************************************)
\* Variant: the sku is stored as given, without strip().upper().
add_product_RawSku(d, sku, name, price, quantity) ==
    IF ~Truthy(sku) \/ ~Truthy(name)
    THEN [result |-> Raise("ValueError", "missing"), db |-> d]
    ELSE IF price < 0 \/ quantity < 0
    THEN [result |-> Raise("ValueError", "negative"), db |-> d]
    ELSE LET ins == InsertProduct(d, sku, strip(name), price, quantity)
         IN IF ins.exc = "None"
            THEN [result |-> Closed(Opened(Returned)),
                  db |-> Commit(d, ins.db)]
            ELSE [result |-> Closed(Opened(Raise("ValueError", "exists"))),
                  db |-> Rollback(d, ins.db)]

add_product(d, sku, name, price, quantity) ==
    IF ~Truthy(sku) \/ ~Truthy(name)
    THEN [result |-> Raise("ValueError", "missing"), db |-> d]
    ELSE IF price < 0 \/ quantity < 0
    THEN [result |-> Raise("ValueError", "negative"), db |-> d]
    ELSE LET ins == InsertProduct(d, upper(strip(sku)), strip(name),
                                  price, quantity)
         IN IF ins.exc = "None"
            THEN [result |-> Closed(Opened(Returned)),
                  db |-> Commit(d, ins.db)]
            ELSE [result |-> Closed(Opened(Raise("ValueError", "exists"))),
                  db |-> Rollback(d, ins.db)]

(***************************************************************************)
(* remove_product                                                          *)
(***************************************************************************)
remove_product(d, sku) ==
    IF ~Truthy(sku)
    THEN [result |-> Raise("ValueError", "empty sku"), db |-> d]
    ELSE IF SelectProduct(d, sku) = {}
    \* the ValueError raised inside the try block is caught by
    \* `except Exception` and leaves as a RuntimeError
    THEN [result |-> Closed(Opened(Raise("RuntimeError", "not found"))),
          db |-> Rollback(d, d)]
    ELSE LET del == DeleteProduct(d, sku)
         IN IF del.exc = "IntegrityError"
            THEN [result |-> Closed(Opened(Raise("ValueError", "referenced"))),
                  db |-> Rollback(d, del.db)]
            ELSE IF del.rowcount = 0
            THEN [result |-> Closed(Opened(Raise("RuntimeError", "not deleted"))),
                  db |-> Commit(d, del.db)]
            ELSE [result |-> Closed(Opened(Returned)), db |-> Commit(d, del.db)]

(***************************************************************************)
(* get_product_details: the row found, or None (NoRow).                    *)
(***************************************************************************)
get_product_details(d, sku) == SelectProduct(d, sku)

\* The call as a whole: the connection is closed in the finally clause.
get_product_details_call(d, sku) ==
    Closed(Opened([Returned EXCEPT !.ret_row = get_product_details(d, sku)]))

(***************************************************************************)
(* process_sale                                                            *)
(***************************************************************************)
\* Variant: the total adds the unit prices and forgets the quantities.
RECURSIVE current_total_NoQuantity(_)
current_total_NoQuantity(bill_items) ==
    IF bill_items = <<>> THEN 0
    ELSE Head(bill_items).price_at_sale
           + current_total_NoQuantity(Tail(bill_items))

RECURSIVE current_total(_)
current_total(bill_items) ==
    IF bill_items = <<>> THEN 0
    ELSE Head(bill_items).price_at_sale * Head(bill_items).quantity_sold
           + current_total(Tail(bill_items))

\* Quantity of sku on the line items already stored for transaction_id.
RECURSIVE SoldInTransaction(_, _, _)
SoldInTransaction(items, transaction_id, sku) ==
    IF items = <<>> THEN 0
    ELSE (IF Head(items).transaction_id = transaction_id
             /\ Head(items).product_sku = sku
          THEN Head(items).quantity_sold ELSE 0)
           + SoldInTransaction(Tail(items), transaction_id, sku)

\* Variant: each line is checked against the stock read before the call,
\* not against the stock as the earlier lines left it.
RECURSIVE sale_loop_StaleStock(_, _, _, _)
sale_loop_StaleStock(d, transaction_id, bill_items, i) ==
    IF i > Len(bill_items) THEN [exc |-> "None", db |-> d]
    ELSE LET item == bill_items[i]
             current_stock == SelectProduct(d, item.sku)
             sold == SoldInTransaction(d.transaction_items, transaction_id,
                                       item.sku)
         IN IF \/ current_stock = {}
               \/ \E p \in current_stock :
                     p.quantity + sold < item.quantity_sold
            THEN [exc |-> "ValueError", db |-> d]
            ELSE LET ins == InsertItem(d, transaction_id, item.sku,
                                       item.quantity_sold, item.price_at_sale)
                 IN IF ins.exc /= "None" THEN ins
                    ELSE LET upd == UpdateStock(ins.db, item.quantity_sold,
                                                item.sku)
                         IN IF upd.exc /= "None" THEN upd
                            ELSE sale_loop_StaleStock(upd.db, transaction_id,
                                                      bill_items, i + 1)

\* The for loop of step 2, from line i on, working on d.
RECURSIVE sale_loop(_, _, _, _)
sale_loop(d, transaction_id, bill_items, i) ==
    IF i > Len(bill_items) THEN [exc |-> "None", db |-> d]
    ELSE LET item == bill_items[i]
             current_stock == SelectProduct(d, item.sku)
         IN IF \/ current_stock = {}
               \/ \E p \in current_stock : p.quantity < item.quantity_sold
            THEN [exc |-> "ValueError", db |-> d]
            ELSE LET ins == InsertItem(d, transaction_id, item.sku,
                                       item.quantity_sold, item.price_at_sale)
                 IN IF ins.exc /= "None" THEN ins
                    ELSE LET upd == UpdateStock(ins.db, item.quantity_sold,
                                                item.sku)
                         IN IF upd.exc /= "None" THEN upd
                            ELSE sale_loop(upd.db, transaction_id,
                                           bill_items, i + 1)

\* A bill_items element the code can index and unpack: a 4-tuple.
FourTuple(item) == DOMAIN item = {"sku", "name", "price_at_sale", "quantity_sold"}

process_sale(d, bill_items, ts) ==
    IF bill_items = <<>>
    THEN [result |-> Raise("ValueError", "empty bill"), db |-> d]
    ELSE IF \E i \in 1..Len(bill_items) : ~FourTuple(bill_items[i])
    \* item[3] raises IndexError in the sum of line 156, after the
    \* connection was opened and before the try block is entered
    THEN [result |-> Opened(Raise("IndexError", "tuple index out of range")),
          db |-> d]
    ELSE LET tx == InsertTransaction(d, current_total(bill_items), ts)
             run == sale_loop(tx.db, tx.lastrowid, bill_items, 1)
         IN IF run.exc = "None"
            THEN [result |-> Closed(Opened([Returned EXCEPT
                                              !.ret_id = tx.lastrowid])),
                  db |-> Commit(d, run.db)]
            ELSE IF run.exc = "ValueError"
            THEN [result |-> Closed(Opened(Raise("ValueError",
                                                 "insufficient stock"))),
                  db |-> Rollback(d, run.db)]
            ELSE [result |-> Closed(Opened(Raise("RuntimeError",
                                                 "database error"))),
                  db |-> Rollback(d, run.db)]

(***************************************************************************)
(* get_transaction_details                                                 *)
(***************************************************************************)
RECURSIVE SelectItems(_, _)
SelectItems(d, transaction_id) ==
    IF d.transaction_items = <<>> THEN <<>>
    ELSE LET it == Head(d.transaction_items)
             rest == SelectItems([d EXCEPT !.transaction_items = Tail(@)],
                                 transaction_id)
             joined == SelectProduct(d, it.product_sku)
         IN IF it.transaction_id = transaction_id /\ joined /= {}
            THEN <<[quantity_sold |-> it.quantity_sold,
                    name |-> (CHOOSE p \in joined : TRUE).name,
                    product_sku |-> it.product_sku,
                    price_at_sale |-> it.price_at_sale]>> \o rest
            ELSE rest

get_transaction_details(d, transaction_id) ==
    LET trans_info == {d.transactions[i] : i \in
                         {j \in 1..Len(d.transactions) :
                            d.transactions[j].transaction_id = transaction_id}}
    IN IF trans_info = {}
       \* the ValueError raised inside the try block is caught by
       \* `except Exception` and leaves as a RuntimeError
       THEN Closed(Opened(Raise("RuntimeError", "not found")))
       ELSE Closed(Opened([Returned EXCEPT
                             !.ret_info = trans_info,
                             !.ret_items = SelectItems(d, transaction_id)]))

(***************************************************************************)
(* State: the database file, the clock behind CURRENT_TIMESTAMP, and the   *)
(* last call made with its arguments and outcome.                          *)
(***************************************************************************)
\* The byte of a character: TEXT values compare by the BINARY collation.
CharCode(c) ==
    IF c = " " THEN 32 ELSE IF c = "A" THEN 65 ELSE IF c = "B" THEN 66
    ELSE IF c = "N" THEN 78 ELSE IF c = "a" THEN 97 ELSE IF c = "b" THEN 98
    ELSE 110

RECURSIVE TextLE(_, _)
TextLE(a, b) ==
    IF a = <<>> THEN TRUE
    ELSE IF b = <<>> THEN FALSE
    ELSE IF Head(a) = Head(b) THEN TextLE(Tail(a), Tail(b))
    ELSE CharCode(Head(a)) < CharCode(Head(b))

\* ORDER BY name: every listing of the rows with the names ascending; the
\* order of rows with equal names is not specified.
OrderByName(rows) ==
    {s \in [1..Cardinality(rows) -> rows] :
        \A i, j \in 1..Cardinality(rows) :
            i < j => s[i] /= s[j] /\ TextLE(s[i].name, s[j].name)}

\* SELECT sku, name, price, quantity FROM products ORDER BY name
get_all_products(d) ==
    {Closed(Opened([Returned EXCEPT !.ret_rows = rows])) :
        rows \in OrderByName(d.products)}

\* name LIKE '%term%': term occurs in name, letters compared without case.
Like(name, term) ==
    \E i \in 0..Len(name) :
        /\ i + Len(term) <= Len(name)
        /\ \A j \in 1..Len(term) :
              upperChar(name[i + j]) = upperChar(term[j])

\* SELECT ... FROM products WHERE sku = ? OR name LIKE ? ORDER BY name
find_products(d, search_term) ==
    {Closed(Opened([Returned EXCEPT !.ret_rows = rows])) :
        rows \in OrderByName({p \in d.products :
                                 \/ p.sku = upper(strip(search_term))
                                 \/ Like(p.name, search_term)})}

\* ORDER BY timestamp DESC: every listing of the positions of rows with the
\* timestamps descending; the order of rows with equal timestamps is not
\* specified.
OrderByTimestampDesc(rows) ==
    {s \in [1..Len(rows) -> 1..Len(rows)] :
        \A i, j \in 1..Len(rows) :
            i < j => s[i] /= s[j]
                     /\ rows[s[i]].timestamp >= rows[s[j]].timestamp}

\* SELECT transaction_id, timestamp, total_amount FROM transactions
\* ORDER BY timestamp DESC LIMIT ?
get_transaction_history(d, limit) ==
    LET n == IF limit < Len(d.transactions) THEN limit
             ELSE Len(d.transactions)
    IN {Closed(Opened([Returned EXCEPT
                          !.ret_rows = [i \in 1..n |-> d.transactions[s[i]]]])) :
           s \in OrderByTimestampDesc(d.transactions)}

VARIABLES db, now, last, added,
          current_bill_items, current_bill_total, product_tree,
          billing_actions_frame

\* The state of the StoreApp window.
gui == <<current_bill_items, current_bill_total, product_tree,
         billing_actions_frame>>

vars == <<db, now, last, added, gui>>

Call(op, sku, name, price, quantity, bill, tid, result) ==
    [op |-> op, sku |-> sku, name |-> name, price |-> price,
     quantity |-> quantity, bill_items |-> bill, transaction_id |-> tid,
     search_term |-> <<>>, limit |-> 0, preview_total |-> 0,
     answers |-> <<>>, result |-> result]

\* A call of a query that takes a search term or a limit.
Query(op, search_term, limit, result) ==
    [Call(op, <<>>, <<>>, 0, 0, <<>>, 0, result)
        EXCEPT !.search_term = search_term, !.limit = limit]

\* History of the catalog: for every product that is in the catalog after a
\* call, the quantity that the add_product call which inserted it was given.
AddedWith(a, d_before, d_after, quantity) ==
    {x \in a : SelectProduct(d_after, x.sku) /= {}}
      \cup {[sku |-> p.sku, quantity |-> quantity] :
               p \in {q \in d_after.products :
                        SelectProduct(d_before, q.sku) = {}}}

\* No call is in progress: the program waits for the next one.
Idle == Call("idle", <<>>, <<>>, 0, 0, <<>>, 0, Returned)

Init ==
    /\ db = EmptyDb
    /\ now = 0
    /\ last = Idle
    /\ added = {}
    /\ current_bill_items = <<>>
    /\ current_bill_total = 0
    /\ product_tree = <<>>
    /\ billing_actions_frame = "forgotten"

\* The caller has consumed the outcome of the last call.
Forget ==
    /\ last /= Idle
    /\ last' = Idle
    /\ UNCHANGED <<db, now, added, gui>>

AddProduct ==
    /\ last = Idle
    /\ \E sku \in SkuArgs, name \in NameArgs, price \in PriceArgs,
       quantity \in QtyArgs :
        LET r == add_product(db, sku, name, price, quantity)
        IN /\ db' = r.db
           /\ last' = Call("add_product", sku, name, price, quantity, <<>>, 0,
                           r.result)
           /\ added' = AddedWith(added, db, r.db, quantity)
           /\ UNCHANGED <<now, gui>>

RemoveProduct ==
    /\ last = Idle
    /\ \E sku \in SkuArgs :
        LET r == remove_product(db, sku)
        IN /\ db' = r.db
           /\ last' = Call("remove_product", sku, <<>>, 0, 0, <<>>, 0, r.result)
           /\ added' = AddedWith(added, db, r.db, 0)
           /\ UNCHANGED <<now, gui>>

GetProductDetails ==
    /\ last = Idle
    /\ \E sku \in SkuArgs :
        /\ last' = Call("get_product_details", sku, <<>>, 0, 0, <<>>, 0,
                        get_product_details_call(db, sku))
        /\ UNCHANGED <<db, now, added, gui>>

ProcessSale ==
    /\ last = Idle
    /\ \E bill_items \in Bills, ts \in now..MaxTime :
        LET r == process_sale(db, bill_items, ts)
        IN /\ Len(r.db.transaction_items) <= MaxItems
           /\ db' = r.db
           /\ now' = ts
           /\ last' = Call("process_sale", <<>>, <<>>, 0, 0, bill_items, 0,
                           r.result)
           /\ UNCHANGED <<added, gui>>

GetTransactionDetails ==
    /\ last = Idle
    /\ \E tid \in TidArgs :
        /\ last' = Call("get_transaction_details", <<>>, <<>>, 0, 0, <<>>, tid,
                        get_transaction_details(db, tid))
        /\ UNCHANGED <<db, now, added, gui>>

GetAllProducts ==
    /\ last = Idle
    /\ \E result \in get_all_products(db) :
        /\ last' = Query("get_all_products", <<>>, 0, result)
        /\ UNCHANGED <<db, now, added, gui>>

FindProducts ==
    /\ last = Idle
    /\ \E search_term \in TermArgs :
        \E result \in find_products(db, search_term) :
            /\ last' = Query("find_products", search_term, 0, result)
            /\ UNCHANGED <<db, now, added, gui>>

GetTransactionHistory ==
    /\ last = Idle
    /\ \E limit \in LimitArgs :
        \E result \in get_transaction_history(db, limit) :
            /\ last' = Query("get_transaction_history", <<>>, limit, result)
            /\ UNCHANGED <<db, now, added, gui>>

Next ==
    \/ AddProduct
    \/ RemoveProduct
    \/ GetAllProducts
    \/ FindProducts
    \/ GetProductDetails
    \/ ProcessSale
    \/ GetTransactionDetails
    \/ GetTransactionHistory
    \/ Forget

Spec == Init /\ [][Next]_vars

(***************************************************************************)
(* StoreApp: the handlers of the window.  history_tree, the status bar and *)
(* the message boxes are not part of the state; the answer to a yes/no box *)
(* is an input of the handler that shows it.                               *)
(***************************************************************************)

\* f"{price:.2f}": the text of a price, as a number of hundredths (the
\* prices of the model are never exactly between two hundredths).
Format2f(price) == (price + 5) \div 10

\* float(price_str)
ParsePrice(price_str) == price_str * 10

\* values=(sku, name, f"{price:.2f}", quantity)
TreeRow(p) ==
    [sku |-> p.sku, name |-> p.name, price |-> Format2f(p.price),
     qty |-> p.quantity]

\* values=("", "No products found matching ...", "", "")
NoResultsRow == [sku |-> <<>>, name |-> <<"?">>, price |-> 0, qty |-> 0]

TreeOf(rows) == [i \in 1..Len(rows) |-> TreeRow(rows[i])]

\* The trees that populate_product_list() can leave.
populate_product_list(d) ==
    {TreeOf(r.ret_rows) : r \in get_all_products(d)}

\* The dict loops of display_current_bill and process_checkout: one entry
\* per sku in the order of first occurrence, with the name and price of the
\* first entry and the sum of the quantities.
RECURSIVE Aggregate(_)
Aggregate(items) ==
    IF items = <<>> THEN <<>>
    ELSE LET n == Len(items)
             before == Aggregate(SubSeq(items, 1, n - 1))
             item == items[n]
         IN IF \E i \in 1..Len(before) : before[i].sku = item.sku
            THEN [i \in 1..Len(before) |->
                    IF before[i].sku = item.sku
                    THEN [before[i] EXCEPT !.qty = @ + item.qty]
                    ELSE before[i]]
            ELSE Append(before, item)

display_current_bill(items) ==
    LET summary == Aggregate(items)
    IN [i \in 1..Len(summary) |->
          [summary[i] EXCEPT !.price = Format2f(summary[i].price)]]

final_bill_items(items) ==
    LET aggregated == Aggregate(items)
    IN [i \in 1..Len(aggregated) |->
          [sku |-> aggregated[i].sku, name |-> aggregated[i].name,
           price_at_sale |-> aggregated[i].price,
           quantity_sold |-> aggregated[i].qty]]

\* A handler that ran, with the outcome of its backend call if it made one.
Handled(op, result) == [Idle EXCEPT !.op = op, !.result = result]

cancel_billing_mode(d, yes) ==
    IF current_bill_items /= <<>> /\ ~yes
    THEN UNCHANGED gui
    ELSE /\ current_bill_items' = <<>>
         /\ current_bill_total' = 0
         /\ billing_actions_frame' = "forgotten"
         /\ product_tree' \in populate_product_list(d)

PopulateProductList ==
    /\ last = Idle
    /\ product_tree' \in populate_product_list(db)
    /\ last' = Handled("populate_product_list", Closed(Opened(Returned)))
    /\ UNCHANGED <<db, now, added, current_bill_items, current_bill_total,
                   billing_actions_frame>>

ShowAddProductDialog ==
    /\ last = Idle
    /\ \/ /\ last' = Handled("show_add_product_dialog", Returned)
          /\ UNCHANGED <<db, now, added, gui>>
       \/ \E sku \in GuiSkus, name \in GuiNames, price \in GuiPrices,
             quantity \in GuiStocks :
            IF ~Truthy(sku) \/ ~Truthy(name) \/ price < 0 \/ quantity < 0
            THEN /\ last' = Handled("show_add_product_dialog",
                                    Raise("ValueError", "input"))
                 /\ UNCHANGED <<db, now, added, gui>>
            ELSE LET r == add_product(db, sku, name, price, quantity)
                 IN /\ db' = r.db
                    /\ added' = AddedWith(added, db, r.db, quantity)
                    /\ last' = Handled("show_add_product_dialog", r.result)
                    /\ IF r.result.kind = "ok"
                       THEN product_tree' \in populate_product_list(r.db)
                       ELSE UNCHANGED product_tree
                    /\ UNCHANGED <<now, current_bill_items, current_bill_total,
                                   billing_actions_frame>>

RemoveSelectedProduct ==
    /\ last = Idle
    /\ \E selected_item \in 0..Len(product_tree), yes \in BOOLEAN :
        IF selected_item = 0 \/ ~yes
        THEN /\ last' = Handled("remove_selected_product", Returned)
             /\ UNCHANGED <<db, now, added, gui>>
        ELSE LET r == remove_product(db, product_tree[selected_item].sku)
             IN /\ db' = r.db
                /\ added' = AddedWith(added, db, r.db, 0)
                /\ last' = Handled("remove_selected_product", r.result)
                /\ IF r.result.kind = "ok"
                   THEN product_tree' \in populate_product_list(r.db)
                   ELSE UNCHANGED product_tree
                /\ UNCHANGED <<now, current_bill_items, current_bill_total,
                               billing_actions_frame>>

StartBillingMode ==
    /\ last = Idle
    /\ current_bill_items' = <<>>
    /\ current_bill_total' = 0
    /\ product_tree' = <<>>
    /\ billing_actions_frame' = "packed"
    /\ last' = Handled("start_billing_mode", Returned)
    /\ UNCHANGED <<db, now, added>>

CancelBillingMode ==
    /\ last = Idle
    /\ billing_actions_frame = "packed"
    /\ \E yes \in BOOLEAN : cancel_billing_mode(db, yes)
    /\ last' = Handled("cancel_billing_mode", Returned)
    /\ UNCHANGED <<db, now, added>>

SearchAndDisplayProducts ==
    /\ last = Idle
    /\ billing_actions_frame = "packed"
    /\ \E search_term \in GuiTerms :
        IF ~Truthy(search_term)
        THEN /\ last' = Handled("search_and_display_products", Returned)
             /\ UNCHANGED product_tree
        ELSE \E r \in find_products(db, search_term) :
                /\ product_tree' = IF r.ret_rows = <<>> THEN <<NoResultsRow>>
                                   ELSE TreeOf(r.ret_rows)
                /\ last' = Handled("search_and_display_products", r)
    /\ UNCHANGED <<db, now, added, current_bill_items, current_bill_total,
                   billing_actions_frame>>

AddSelectedToBill ==
    /\ last = Idle
    /\ billing_actions_frame = "packed"
    /\ \E selected_item \in 0..Len(product_tree), qty_to_add \in GuiQtys :
        IF selected_item = 0 \/ ~Truthy(product_tree[selected_item].sku)
        THEN /\ last' = Handled("add_selected_to_bill", Returned)
             /\ UNCHANGED gui
        ELSE LET item_values == product_tree[selected_item]
                 price == ParsePrice(item_values.price)
                 stock == item_values.qty
             IN IF qty_to_add <= 0 \/ qty_to_add > stock
                THEN /\ last' = Handled("add_selected_to_bill",
                                        Raise("ValueError", "quantity"))
                     /\ UNCHANGED gui
                ELSE /\ Len(current_bill_items) < MaxBill
                     /\ current_bill_items' =
                          Append(current_bill_items,
                                 [sku |-> item_values.sku,
                                  name |-> item_values.name,
                                  price |-> price, qty |-> qty_to_add])
                     /\ current_bill_total' =
                          current_bill_total + price * qty_to_add
                     /\ product_tree' =
                          display_current_bill(current_bill_items')
                     /\ last' = Handled("add_selected_to_bill", Returned)
                     /\ UNCHANGED billing_actions_frame
    /\ UNCHANGED <<db, now, added>>

ProcessCheckout ==
    /\ last = Idle
    /\ billing_actions_frame = "packed"
    /\ IF current_bill_items = <<>>
       THEN /\ last' = Handled("process_checkout", Returned)
            /\ UNCHANGED <<db, now, added, gui>>
       ELSE \E confirm \in BOOLEAN, receipt \in BOOLEAN, yes \in BOOLEAN :
              IF ~confirm
              THEN /\ last' = [Handled("process_checkout", Returned) EXCEPT
                                 !.preview_total = current_bill_total,
                                 !.answers = <<confirm>>]
                   /\ UNCHANGED <<db, now, added, gui>>
              ELSE \E ts \in now..MaxTime :
                     LET r == process_sale(db,
                                  final_bill_items(current_bill_items), ts)
                     IN /\ Len(r.db.transaction_items) <= MaxItems
                        /\ db' = r.db
                        /\ now' = ts
                        /\ last' = [Handled("process_checkout", r.result)
                                      EXCEPT
                                      !.bill_items =
                                         final_bill_items(current_bill_items),
                                      !.preview_total = current_bill_total,
                                      !.answers = <<confirm, receipt, yes>>]
                        /\ IF r.result.kind = "ok"
                           THEN cancel_billing_mode(r.db, yes)
                           ELSE UNCHANGED gui
                        /\ UNCHANGED added

GuiNext ==
    \/ PopulateProductList
    \/ ShowAddProductDialog
    \/ RemoveSelectedProduct
    \/ StartBillingMode
    \/ CancelBillingMode
    \/ SearchAndDisplayProducts
    \/ AddSelectedToBill
    \/ ProcessCheckout
    \/ Forget

GuiSpec == Init /\ [][GuiNext]_vars

(***************************************************************************)
(* Properties.                                                             *)
(***************************************************************************)
FailedSale == last.op = "process_sale" /\ last.result.kind /= "ok"
FailedSaleStep == last'.op = "process_sale" /\ last'.result.kind /= "ok"
DoneSale == last.op = "process_sale" /\ last.result.kind = "ok"
DoneSaleStep == last'.op = "process_sale" /\ last'.result.kind = "ok"

\* C1: a process_sale that fails, for whatever reason, leaves the products
\* with their quantities, the transactions and the line items exactly as
\* they were before the call.
C1_FailedCheckoutChangesNothing ==
    [][FailedSaleStep =>
         /\ db'.products = db.products
         /\ db'.transactions = db.transactions
         /\ db'.transaction_items = db.transaction_items]_vars

\* A checkout failed on its second line after its first line had been
\* inserted and its stock decremented.
C1_Witness ==
    /\ FailedSale
    /\ last.result.msg = "insufficient stock"
    /\ Len(last.bill_items) = 2
    /\ last.bill_items[1].quantity_sold >= 1
    /\ \E p \in db.products :
          /\ p.sku = last.bill_items[1].sku
          /\ p.quantity >= last.bill_items[1].quantity_sold

RECURSIVE QuantitySold(_, _)
QuantitySold(bill_items, sku) ==
    IF bill_items = <<>> THEN 0
    ELSE (IF Head(bill_items).sku = sku THEN Head(bill_items).quantity_sold
          ELSE 0) + QuantitySold(Tail(bill_items), sku)

RECURSIVE ItemsTotal(_, _)
ItemsTotal(items, transaction_id) ==
    IF items = <<>> THEN 0
    ELSE (IF Head(items).transaction_id = transaction_id
          THEN Head(items).price_at_sale * Head(items).quantity_sold
          ELSE 0) + ItemsTotal(Tail(items), transaction_id)

RECURSIVE BillTotal(_)
BillTotal(bill_items) ==
    IF bill_items = <<>> THEN 0
    ELSE Head(bill_items).price_at_sale * Head(bill_items).quantity_sold
           + BillTotal(Tail(bill_items))

TotalsMatchItems ==
    \A i \in 1..Len(db.transactions) :
        db.transactions[i].total_amount =
            ItemsTotal(db.transaction_items, db.transactions[i].transaction_id)

SaleEffect ==
    LET bill == last'.bill_items
        n == Len(db.transactions)
        m == Len(db.transaction_items)
    IN /\ Len(db'.transactions) = n + 1
       /\ SubSeq(db'.transactions, 1, n) = db.transactions
       /\ db'.transactions[n + 1].transaction_id = last'.result.ret_id
       /\ db'.transactions[n + 1].total_amount = BillTotal(bill)
       /\ Len(db'.transaction_items) = m + Len(bill)
       /\ SubSeq(db'.transaction_items, 1, m) = db.transaction_items
       /\ \A i \in 1..Len(bill) :
             LET it == db'.transaction_items[m + i]
             IN /\ it.transaction_id = last'.result.ret_id
                /\ it.product_sku = bill[i].sku
                /\ it.quantity_sold = bill[i].quantity_sold
                /\ it.price_at_sale = bill[i].price_at_sale
       /\ db'.products =
             {[p EXCEPT !.quantity = @ - QuantitySold(bill, p.sku)] :
                p \in db.products}

\* C2: a successful checkout creates exactly one transaction whose
\* total_amount is the sum of unit price x quantity over the given lines,
\* stores one line item per given line with that line's sku, quantity and
\* price, and lowers each product's stock by exactly the quantity sold of its
\* sku in the call; every stored transaction's total_amount equals the sum
\* of price_at_sale x quantity_sold over its own line items.
C2_CheckoutTotalsAndStock ==
    /\ []TotalsMatchItems
    /\ [][DoneSaleStep => SaleEffect]_vars

\* A checkout of two lines with different quantities succeeded.
C2_Witness ==
    /\ DoneSale
    /\ Len(last.bill_items) = 2
    /\ last.bill_items[1].quantity_sold = 2
    /\ last.bill_items[2].quantity_sold = 1
    /\ last.bill_items[1].sku /= last.bill_items[2].sku
    /\ Len(db.transaction_items) = 2

\* C3: in every reachable state every product has price >= 0 and
\* quantity >= 0, and no two products have the same sku.
C3_ProductInvariant ==
    /\ \A p \in db.products : p.price >= 0 /\ p.quantity >= 0
    /\ \A p, q \in db.products : p.sku = q.sku => p = q

\* Two products are in the catalog and a checkout has sold one out.
C3_Witness ==
    /\ DoneSale
    /\ Cardinality(db.products) = 2
    /\ \E p \in db.products : p.quantity = 0

\* C4 (as stated): once a sku appears in a stored line item, remove_product
\* on that sku fails with the referential-integrity error and the product
\* row stays as it was.
C4_ReferencedProductKept ==
    [][(/\ last'.op = "remove_product"
        /\ \E i \in 1..Len(db.transaction_items) :
              db.transaction_items[i].product_sku = last'.sku)
       => /\ last'.result.kind = "ValueError"
          /\ last'.result.msg = "referenced"
          /\ db'.products = db.products]_vars

NormalizedSku(sku) == upper(strip(sku))

ArgsPassValidation(c) ==
    /\ Truthy(c.sku)
    /\ Truthy(c.name)
    /\ c.price >= 0
    /\ c.quantity >= 0

DuplicateAddStep ==
    /\ last'.op = "add_product"
    /\ \E p \in db.products : p.sku = NormalizedSku(last'.sku)

\* C5 (as stated): add_product with a sku whose normalized form is the sku
\* of an existing product always fails with the duplicate-key error and
\* leaves the catalog unchanged.
C5_DuplicateAlwaysDuplicateKey ==
    [][DuplicateAddStep =>
         /\ last'.result.kind = "ValueError"
         /\ last'.result.msg = "exists"
         /\ db'.products = db.products]_vars

\* C5 (amended): add_product with a sku whose normalized form is the sku of
\* an existing product always fails and leaves the catalog unchanged; the
\* failure is the duplicate-key error when the arguments pass the argument
\* validation, and the validation error otherwise.
C5_DuplicateRejected ==
    [][DuplicateAddStep =>
         /\ last'.result.kind = "ValueError"
         /\ last'.result.msg =
               (IF ArgsPassValidation(last') THEN "exists"
                ELSE IF ~Truthy(last'.sku) \/ ~Truthy(last'.name)
                THEN "missing" ELSE "negative")
         /\ db'.products = db.products]_vars

\* The lower-case spelling of an existing sku was refused as a duplicate,
\* with a quantity other than the one in stock.
C5_Witness ==
    /\ last.op = "add_product"
    /\ last.result.msg = "exists"
    /\ last.sku /= NormalizedSku(last.sku)
    /\ NormalizedSku(last.sku) /= <<>>
    /\ \E p \in db.products :
          p.sku = NormalizedSku(last.sku) /\ p.quantity /= last.quantity

\* C6 (as stated): after add_product succeeds on a valid input,
\* get_product_details with the same sku argument returns the stored
\* product: upper-cased trimmed sku, trimmed name, the given price and
\* quantity.
C6_AddThenGetRoundTrip ==
    (/\ last.op = "add_product"
     /\ last.result.kind = "ok"
     /\ NormalizedSku(last.sku) /= <<>>
     /\ strip(last.name) /= <<>>)
    => get_product_details(db, last.sku) =
          {[sku |-> NormalizedSku(last.sku), name |-> strip(last.name),
            price |-> last.price, quantity |-> last.quantity]}

\* C7 (as stated): add_product fails with a validation error and inserts no
\* row whenever the sku or the name is empty after trimming or the price or
\* the quantity is negative; no product with an empty sku or name is stored.
C7_EmptyAfterTrimRejected ==
    /\ [](\A p \in db.products : p.sku /= <<>> /\ p.name /= <<>>)
    /\ [][(/\ last'.op = "add_product"
           /\ \/ strip(last'.sku) = <<>>
              \/ strip(last'.name) = <<>>
              \/ last'.price < 0
              \/ last'.quantity < 0)
          => /\ last'.result.kind = "ValueError"
             /\ last'.result.msg \in {"missing", "negative"}
             /\ db'.products = db.products]_vars

\* C8 (as stated): remove_product on a sku no product has fails with a
\* domain error (ValueError), which the caller can tell apart from the
\* RuntimeError used for storage failures, and the store is unchanged.
C8_RemoveMissingNotFound ==
    [][(/\ last'.op = "remove_product"
        /\ SelectProduct(db, last'.sku) = {})
       => /\ last'.result.kind = "ValueError"
          /\ db' = db]_vars

StoredItems(transaction_id) ==
    SelectSeq(db.transaction_items,
              LAMBDA it : it.transaction_id = transaction_id)

\* C9 (as stated): get_transaction_details on an id no transaction has
\* fails with the not-found error (a ValueError, not the RuntimeError of
\* storage failures); on an existing id it returns that transaction's id,
\* timestamp and total with every line item stored for it, each with its
\* price_at_sale and quantity_sold.
C9_TransactionDetails ==
    last.op = "get_transaction_details" =>
        LET rows == {db.transactions[i] : i \in
                       {j \in 1..Len(db.transactions) :
                          db.transactions[j].transaction_id =
                              last.transaction_id}}
            stored == StoredItems(last.transaction_id)
        IN IF rows = {}
           THEN /\ last.result.kind = "ValueError"
                /\ last.result.msg = "not found"
           ELSE /\ last.result.kind = "ok"
                /\ last.result.ret_info = rows
                /\ Len(last.result.ret_items) = Len(stored)
                /\ \A i \in 1..Len(stored) :
                      /\ last.result.ret_items[i].product_sku =
                             stored[i].product_sku
                      /\ last.result.ret_items[i].quantity_sold =
                             stored[i].quantity_sold
                      /\ last.result.ret_items[i].price_at_sale =
                             stored[i].price_at_sale

IdsIncreasing ==
    \A i, j \in 1..Len(db.transactions) :
        i < j => db.transactions[i].transaction_id
                   < db.transactions[j].transaction_id

\* C10: transaction ids are unique and strictly increasing in creation
\* order: a successful checkout returns the id of the transaction it
\* created, which is greater than the id of every transaction created
\* before it, whatever failed checkouts happened in between.
C10_IdsUniqueIncreasing ==
    /\ []IdsIncreasing
    /\ [][DoneSaleStep =>
            /\ db'.transactions[Len(db'.transactions)].transaction_id
                 = last'.result.ret_id
            /\ \A i \in 1..Len(db.transactions) :
                  db.transactions[i].transaction_id < last'.result.ret_id]_vars

\* A second transaction was committed.
C10_Witness ==
    /\ DoneSale
    /\ Len(db.transactions) = 2
    /\ db.transactions[2].transaction_id = last.result.ret_id

\* C11 (as stated): every stored line item has quantity_sold >= 1, and a
\* checkout never leaves a product's stock higher than before the call.
C11_SoldQuantityPositive ==
    /\ [](\A i \in 1..Len(db.transaction_items) :
             db.transaction_items[i].quantity_sold >= 1)
    /\ [][last'.op = "process_sale" =>
            \A p \in db.products, q \in db'.products :
                q.sku = p.sku => q.quantity <= p.quantity]_vars

\* C13: every stored line item references a transaction that exists and a
\* product that is in the catalog.
C13_ReferentialIntegrity ==
    \A i \in 1..Len(db.transaction_items) :
        /\ \E j \in 1..Len(db.transactions) :
              db.transactions[j].transaction_id =
                  db.transaction_items[i].transaction_id
        /\ \E p \in db.products :
              p.sku = db.transaction_items[i].product_sku

\* The removal of a product that line items reference was refused.
C13_Witness ==
    /\ last.op = "remove_product"
    /\ last.result.msg = "referenced"
    /\ \E i \in 1..Len(db.transaction_items) :
          db.transaction_items[i].product_sku = last.sku

BillWellFormed(bill_items) ==
    /\ bill_items /= <<>>
    /\ \A i \in 1..Len(bill_items) : FourTuple(bill_items[i])

StockOf(d, sku) ==
    IF SelectProduct(d, sku) = {} THEN 0
    ELSE (CHOOSE p \in SelectProduct(d, sku) : TRUE).quantity

\* C14: a checkout succeeds only if, for every sku, the quantities of all
\* lines with that sku add up to at most the stock before the call; when
\* every sku of the bill exists and the lines of some sku add up to more
\* than its stock, the checkout fails with the insufficient-stock error and
\* changes nothing.
C14_StockCheckedPerLine ==
    [][(last'.op = "process_sale" /\ BillWellFormed(last'.bill_items)) =>
         LET bill == last'.bill_items
             skus == {bill[i].sku : i \in 1..Len(bill)}
         IN /\ last'.result.kind = "ok" =>
                  \A sku \in skus :
                      /\ SelectProduct(db, sku) /= {}
                      /\ QuantitySold(bill, sku) <= StockOf(db, sku)
            /\ (/\ \A sku \in skus : SelectProduct(db, sku) /= {}
                /\ \E sku \in skus :
                      QuantitySold(bill, sku) > StockOf(db, sku))
               => /\ last'.result.kind = "ValueError"
                  /\ last'.result.msg = "insufficient stock"
                  /\ db'.products = db.products
                  /\ db'.transactions = db.transactions
                  /\ db'.transaction_items = db.transaction_items]_vars

\* A checkout with the same sku on two lines failed although each line
\* alone is within the stock.
C14_Witness ==
    /\ FailedSale
    /\ Len(last.bill_items) = 2
    /\ last.bill_items[1].sku = last.bill_items[2].sku
    /\ last.bill_items[1].quantity_sold >= 1
    /\ last.bill_items[1].quantity_sold <= StockOf(db, last.bill_items[1].sku)
    /\ last.bill_items[2].quantity_sold <= StockOf(db, last.bill_items[1].sku)
    /\ QuantitySold(last.bill_items, last.bill_items[1].sku)
         > StockOf(db, last.bill_items[1].sku)

\* C16: stock changes only by checkout.  Any call other than a successful
\* process_sale leaves the quantity of every product that stays in the
\* catalog unchanged; a successful process_sale leaves the quantity of
\* every product whose sku is not on the bill unchanged, and the sku, name
\* and price of every product.
C16_StockChangedOnlyByCheckout ==
    [][IF DoneSaleStep
       THEN /\ Cardinality(db'.products) = Cardinality(db.products)
            /\ \A p \in db.products :
                  \E q \in db'.products :
                      /\ q.sku = p.sku
                      /\ q.name = p.name
                      /\ q.price = p.price
                      /\ QuantitySold(last'.bill_items, p.sku) = 0
                         /\ (\A i \in 1..Len(last'.bill_items) :
                                last'.bill_items[i].sku /= p.sku)
                         => q.quantity = p.quantity
       ELSE \A p \in db.products, q \in db'.products :
               q.sku = p.sku => q.quantity = p.quantity]_vars

\* A checkout sold units of one of two products and named only that one.
C16_Witness ==
    /\ DoneSale
    /\ Cardinality(db.products) = 2
    /\ Len(last.bill_items) = 1
    /\ last.bill_items[1].quantity_sold >= 1
    /\ \E p \in db.products : p.sku /= last.bill_items[1].sku

\* The n most recently created transactions, the newest first.
NewestFirst(rows, n) == [i \in 1..n |-> rows[Len(rows) + 1 - i]]

\* C12 (as stated): get_transaction_history(limit) returns exactly the
\* min(limit, N) most recently created of the N stored transactions, the
\* newest first, also when several transactions have the same timestamp.
C12_HistoryNewestFirst ==
    last.op = "get_transaction_history" =>
        last.result.ret_rows =
            NewestFirst(db.transactions,
                        IF last.limit < Len(db.transactions) THEN last.limit
                        ELSE Len(db.transactions))

\* C15 (as stated): after a data operation has returned or raised, the
\* connection that the call opened is closed.
C15_ConnectionClosed ==
    last.op /= "idle" => last.result.conn /= "open"

\* The units of sku on all stored line items.
RECURSIVE SoldUnits(_, _)
SoldUnits(items, sku) ==
    IF items = <<>> THEN 0
    ELSE (IF Head(items).product_sku = sku THEN Head(items).quantity_sold
          ELSE 0) + SoldUnits(Tail(items), sku)

\* C17: stock conservation.  For every product in the catalog, the quantity
\* it was added with equals its current quantity plus the sum of
\* quantity_sold over all stored line items that reference its sku.
C17_StockConservation ==
    \A p \in db.products :
        \E a \in added :
            /\ a.sku = p.sku
            /\ a.quantity = p.quantity + SoldUnits(db.transaction_items, p.sku)

\* A checkout failed for a product of which units were sold before and of
\* which units remain.
C17_Witness ==
    /\ FailedSale
    /\ Len(last.bill_items) = 1
    /\ \E p \in db.products :
          /\ p.sku = last.bill_items[1].sku
          /\ p.quantity >= 1
          /\ SoldUnits(db.transaction_items, p.sku) >= 1

\* C18 (as stated): once process_checkout has recorded a sale, the current
\* bill is reset, whatever the user answers to the dialogs that follow.
C18_BillResetAfterSale ==
    [][(last'.op = "process_checkout" /\ last'.result.ret_id /= 0) =>
          /\ current_bill_items' = <<>>
          /\ current_bill_total' = 0]_vars

\* C19 (as stated): the total shown in the checkout confirmation equals the
\* total_amount that process_sale records for the aggregated bill.
C19_PreviewTotalIsRecordedTotal ==
    [][(last'.op = "process_checkout" /\ last'.result.ret_id /= 0) =>
          last'.preview_total =
              db'.transactions[Len(db'.transactions)].total_amount]_vars

====
